---------------------------- MODULE Spec2Model ----------------------------
(***************************************************************************)
(* A model of the three scripts of the repository:                         *)
(*   webpage_summary_agent/agent.py  fetch_webpage_summary                 *)
(*   scripts/gkeep.py                print_keys, process_note,             *)
(*                                   create_summary, the __main__ loop     *)
(*   experiments/gtd_workflow.py     the five tool functions and main()    *)
(* Python strings are sequences of tokens (a token is one character or one *)
(* literal chunk of a format string), so that strip(), lower() and the     *)
(* f-strings are computed and not assumed.  The hosted model, the agent    *)
(* framework and the file system are the environment: each call into them  *)
(* is a nondeterministic choice among the outcomes the call can have.      *)
(***************************************************************************)
EXTENDS Integers, Sequences, FiniteSets, TLC

VARIABLES
    \* ---- agent.py: one call of fetch_webpage_summary
    f_pc,          \* position in fetch_webpage_summary
    url,           \* the argument
    model,         \* "unbuilt" | "built": genai.GenerativeModel(...)
    generateCalls, \* number of model.generate_content calls made
    f_out,         \* how the call ended: none yet, a returned dict, a raised exception
    \* ---- gkeep.py: print_keys
    pk_pc,         \* "start" | "done"
    data,          \* the argument of print_keys
    stdout_keys,   \* the lines print_keys has printed
    \* ---- gkeep.py: the __main__ loop, process_note and create_summary
    g_pc,          \* position in the loop / in create_summary
    fileNo,        \* how many paths the glob has yielded so far
    json_file,     \* the current path: [isFile, opens, loads]
    skipped,       \* paths for which "Skipping ..." was printed
    opened,        \* paths on which open() was called
    processed,     \* paths whose content reached process_note
    summarized,    \* paths whose processed note reached create_summary
    content,       \* json.load(...) of the current path
    processed_note,\* process_note(content)
    agents,        \* LlmAgent constructions attempted in this create_summary call
    runners,       \* InMemoryRunner constructions in this create_summary call
    sessions,      \* create_session calls in this create_summary call
    runs,          \* runner.run_async calls in this create_summary call
    disk,          \* what get_summary found on disk for each attachment looked at
    warnings,      \* attachments for which "Warning: Could not load image" was printed
    thrown,        \* the exception raised inside the try block, if any
    streamed,      \* events received from run_async in this create_summary call
    content_parts, \* the parts of the message built so far
    result_text,   \* text accumulated from the event stream
    summary,       \* how create_summary ended
    \* ---- gtd_workflow.py: main()
    m_pc,          \* position in main()
    session,       \* 0 before create_session, else the session id
    queryNo,       \* index in test_queries of the current query
    submitted,     \* the run_async calls made: <<query index, session id>>
    printed,       \* the lines main() has printed
    eventsSeen,    \* events received on the current stream
    \* ---- gtd_workflow.py: the tool functions, as the framework calls them
    now,           \* the wall clock datetime.now() reads
    calls          \* the tool calls made so far: [fn, args, at, result]

fetchVars == <<f_pc, url, model, generateCalls, f_out>>
keysVars  == <<pk_pc, data, stdout_keys>>
keepVars  == <<g_pc, fileNo, json_file, skipped, opened, processed, summarized,
               content, processed_note, agents, runners, sessions, runs, disk,
               warnings, thrown, streamed, content_parts, result_text, summary>>
gtdVars   == <<m_pc, session, queryNo, submitted, printed, eventsSeen>>
toolVars  == <<now, calls>>
vars == <<fetchVars, keysVars, keepVars, gtdVars, toolVars>>

\* what a step of one script leaves alone: the variables of the others
notFetchVars == <<keysVars, keepVars, gtdVars, toolVars>>
notKeysVars  == <<fetchVars, keepVars, gtdVars, toolVars>>
notKeepVars  == <<fetchVars, keysVars, gtdVars, toolVars>>
notGtdVars   == <<fetchVars, keysVars, keepVars, toolVars>>
notToolVars  == <<fetchVars, keysVars, keepVars, gtdVars>>

-----------------------------------------------------------------------------
(* Strings *)

\* str.strip(): leading and trailing blanks removed
RECURSIVE LStrip(_)
LStrip(s) == IF s # <<>> /\ Head(s) = " " THEN LStrip(Tail(s)) ELSE s

RECURSIVE RStrip(_)
RStrip(s) ==
    IF s # <<>> /\ s[Len(s)] = " " THEN RStrip(SubSeq(s, 1, Len(s) - 1)) ELSE s

Strip(s) == RStrip(LStrip(s))

\* A raised exception; str(e) is its msg
Exc(type, msg) == [type |-> type, msg |-> msg]
NoOutcome   == [kind |-> "none"]
Return(v)   == [kind |-> "return", value |-> v]
Raise(e)    == [kind |-> "raise", exc |-> e]

-----------------------------------------------------------------------------
(* agent.py: fetch_webpage_summary *)

MaxUrlLen == 5

\* The characters a URL is made of here: a letter, ":", "//" and "["
UrlTokens == {"s", ":", "//", "["}

RECURSIVE SeqsUpTo(_, _)
SeqsUpTo(S, n) ==
    IF n = 0 THEN {<<>>}
    ELSE LET shorter == SeqsUpTo(S, n - 1)
         IN shorter \cup {Append(q, x) : q \in shorter, x \in S}

Urls == SeqsUpTo(UrlTokens, MaxUrlLen)

\* position of the first t in s, 0 when there is none (str.find)
IndexOf(s, t) ==
    IF \E i \in 1..Len(s) : s[i] = t
    THEN CHOOSE i \in 1..Len(s) : s[i] = t /\ \A j \in 1..(i - 1) : s[j] # t
    ELSE 0

\* urllib.parse.urlparse, as far as scheme and netloc go: the scheme is what
\* precedes the first ":" when that is all letters, the netloc is what follows
\* a leading "//" up to the next "/", and an unmatched "[" in it is an error
urlparse(u) ==
    LET i         == IndexOf(u, ":")
        hasScheme == i > 1 /\ \A j \in 1..(i - 1) : u[j] = "s"
        scheme    == IF hasScheme THEN SubSeq(u, 1, i - 1) ELSE <<>>
        rest      == IF hasScheme THEN SubSeq(u, i + 1, Len(u)) ELSE u
        hasNet    == rest # <<>> /\ rest[1] = "//"
        after     == IF hasNet THEN Tail(rest) ELSE <<>>
        d         == IndexOf(after, "//")
        netloc    == IF d = 0 THEN after ELSE SubSeq(after, 1, d - 1)
    IN  IF \E j \in 1..Len(netloc) : netloc[j] = "["
        THEN Raise(Exc("ValueError", <<"Invalid IPv6 URL">>))
        ELSE Return([scheme |-> scheme, netloc |-> netloc])

InvalidUrlMessage ==
    <<"Invalid URL format. Please provide a valid URL with protocol (http:// or https://).">>
FailedMessage == <<"Failed to generate summary from Gemini model.">>

\* line 18 with the netloc test forgotten
InvalidUrl_SchemeOnly(parsed_url) == parsed_url.scheme = <<>>

\* line 18: not parsed_url.scheme or not parsed_url.netloc
InvalidUrl(parsed_url) == parsed_url.scheme = <<>> \/ parsed_url.netloc = <<>>

\* the handler letting the exception through
fetch_except_Propagates(e) == Raise(e)

\* lines 56-60: except Exception as e
fetch_except(e) ==
    Return([status |-> "error",
            error_message |->
                <<"An error occurred while processing the webpage: ">> \o e.msg])

\* What generate_content can do: raise, return None, return a response whose
\* text is empty, blank or a paragraph, or a response whose text cannot be read
Texts == {<<>>, <<" ">>, <<" ", "x", " ">>, <<"x">>}
GenOutcomes ==
    {Raise(Exc("Exception", <<"boom">>)), Return([some |-> FALSE])}
    \cup {Return([some |-> TRUE, text |-> Return(t)]) : t \in Texts}
    \cup {Return([some |-> TRUE,
                  text |-> Raise(Exc("ValueError", <<"no text">>))])}

\* lines 42-54: what becomes of the response
fetch_result(response, u) ==
    IF ~response.some THEN Return([status |-> "error", error_message |-> FailedMessage])
    ELSE IF response.text.kind = "raise" THEN fetch_except(response.text.exc)
    ELSE IF response.text.value # <<>>
         THEN Return([status |-> "success",
                      summary |-> Strip(response.text.value),
                      url |-> u])
         ELSE Return([status |-> "error", error_message |-> FailedMessage])

\* lines 17-22: parse and validate the URL
FetchValidate ==
    /\ f_pc = "start"
    /\ LET p == urlparse(url)
       IN  IF p.kind = "raise"
           THEN f_pc' = "done" /\ f_out' = fetch_except(p.exc)
           ELSE IF InvalidUrl(p.value)
           THEN /\ f_pc' = "done"
                /\ f_out' = Return([status |-> "error",
                                    error_message |-> InvalidUrlMessage])
           ELSE f_pc' = "build" /\ f_out' = f_out
    /\ UNCHANGED <<url, model, generateCalls>>
    /\ UNCHANGED notFetchVars

\* line 25: genai.GenerativeModel(...), which may raise
FetchBuildModel ==
    /\ f_pc = "build"
    /\ \E ok \in BOOLEAN :
          IF ok
          THEN f_pc' = "generate" /\ model' = "built" /\ f_out' = f_out
          ELSE /\ f_pc' = "done" /\ model' = model
               /\ f_out' = fetch_except(Exc("Exception", <<"no model">>))
    /\ UNCHANGED <<url, generateCalls>>
    /\ UNCHANGED notFetchVars

\* lines 40-54: model.generate_content(prompt) and the handling of its result
FetchGenerate ==
    /\ f_pc = "generate"
    /\ generateCalls' = generateCalls + 1
    /\ \E r \in GenOutcomes :
          f_out' = IF r.kind = "raise" THEN fetch_except(r.exc)
                   ELSE fetch_result(r.value, url)
    /\ f_pc' = "done"
    /\ UNCHANGED <<url, model>>
    /\ UNCHANGED notFetchVars

FetchNext == FetchValidate \/ FetchBuildModel \/ FetchGenerate

-----------------------------------------------------------------------------
(* gkeep.py: print_keys *)

MaxNodes == 3

\* The keys of a mapping: the empty string is a legal JSON key
Keys == {<<>>, <<"a">>, <<"b">>}

\* A JSON value is a scalar, a dict (its items in insertion order, the keys
\* distinct) or a list
Scalar     == [type |-> "scalar"]
Dict(kvs)  == [type |-> "dict", items |-> kvs]
List(vs)   == [type |-> "list", items |-> vs]

\* the sequences of n distinct keys
KeySeqs(n) == {ks \in [1..n -> Keys] : \A i, j \in 1..n : i # j => ks[i] # ks[j]}

\* JsonOfSize(n): the values with exactly n nodes; Forests(n): the sequences
\* of values with n nodes in all
RECURSIVE JsonOfSize(_), Forests(_)
JsonOfSize(n) ==
    IF n <= 0 THEN {}
    ELSE (IF n = 1 THEN {Scalar} ELSE {})
         \cup {List(f) : f \in Forests(n - 1)}
         \cup UNION {{Dict([i \in 1..Len(f) |-> <<ks[i], f[i]>>]) :
                          ks \in KeySeqs(Len(f))} :
                     f \in {g \in Forests(n - 1) : Len(g) <= Cardinality(Keys)}}
Forests(n) ==
    IF n = 0 THEN {<<>>}
    ELSE UNION {{<<t>> \o f : t \in JsonOfSize(k), f \in Forests(n - k)} : k \in 1..n}

Containers == UNION {JsonOfSize(n) \ {Scalar} : n \in 1..MaxNodes}

\* enumerate() index as text
IndexText(i) == ToString(i)

\* line 63: f"{prefix}.{key}" if prefix else key
DictKey(prefix, key) == IF prefix # <<>> THEN (prefix \o <<".">>) \o key ELSE key

\* line 68: f"{prefix}[{index}]", index counting from 0
ListKey(prefix, index) == prefix \o <<"[", IndexText(index), "]">>

\* lines 61-70: the lines printed for data under prefix, in printing order
RECURSIVE print_keys(_, _), print_items(_, _, _)
print_keys(d, prefix) ==
    IF d.type = "scalar" THEN <<>> ELSE print_items(d, prefix, 1)
print_items(d, prefix, i) ==
    IF i > Len(d.items) THEN <<>>
    ELSE LET full_key == IF d.type = "dict"
                         THEN DictKey(prefix, d.items[i][1])
                         ELSE ListKey(prefix, i - 1)
             item     == IF d.type = "dict" THEN d.items[i][2] ELSE d.items[i]
         IN  (<<full_key>> \o print_keys(item, full_key)) \o print_items(d, prefix, i + 1)

\* print_keys(data), prefix defaulted to ""
PrintKeys ==
    /\ pk_pc = "start"
    /\ stdout_keys' = print_keys(data, <<>>)
    /\ pk_pc' = "done"
    /\ UNCHANGED data
    /\ UNCHANGED notKeysVars

KeysNext == PrintKeys

-----------------------------------------------------------------------------
(* gkeep.py: process_note *)

MaxTs  == 1
MaxAtt == 1

\* A Python value that may be None, and a dict key that may be absent
None    == [has |-> FALSE]
Some(x) == [has |-> TRUE, v |-> x]
Opt(S)  == {None} \cup {Some(x) : x \in S}

\* dict.get(key, default) on a key whose presence is o
Get(o, default) == IF o.has THEN o.v ELSE default

TsValues == {i * 1500000 : i \in 0..MaxTs}

\* File names: a stem and an extension, character by character
Suffixes == {<<>>, <<".", "p", "n", "g">>, <<".", "j", "p", "g">>,
             <<".", "j", "p", "e", "g">>, <<".", "g", "i", "f">>,
             <<".", "w", "e", "b", "p">>, <<".", "J", "P", "G">>,
             <<".", "t", "x", "t">>}
FilePaths == {<<"f">> \o sfx : sfx \in Suffixes}

\* The notes of an export: every field may be missing
Notes ==
    [textContent : Opt(Texts),
     createdTimestampUsec : Opt(TsValues),
     userEditedTimestampUsec : Opt(TsValues),
     attachments : Opt(SeqsUpTo({[filePath |-> fp] : fp \in FilePaths}, MaxAtt)),
     isTrashed : Opt(BOOLEAN),
     isArchived : Opt({TRUE})]

\* datetime.fromtimestamp(t / 1000000)
Datetime(usec) ==
    [second |-> usec \div 1000000, microsecond |-> usec % 1000000]

\* line 75: datetime.fromtimestamp(...) if timestamp_usec else None; None and 0
\* are both falsy
convert_timestamp(timestamp_usec) ==
    IF timestamp_usec.has /\ timestamp_usec.v # 0
    THEN Some(Datetime(timestamp_usec.v))
    ELSE None

\* Path(KEEP_EXPORT_ABSOLUTE_PATH, att["filePath"])
PathOf(filePath) == [parent |-> "KEEP_EXPORT_ABSOLUTE_PATH", name |-> filePath]

\* lines 86-102
process_note(note) ==
    LET atts == Get(note.attachments, <<>>)
    IN  [textContent |-> Get(note.textContent, <<>>),
         createdTimestampUsec |-> convert_timestamp(note.createdTimestampUsec),
         userEditedTimestampUsec |-> convert_timestamp(note.userEditedTimestampUsec),
         attachments |-> [i \in 1..Len(atts) |-> PathOf(atts[i].filePath)],
         isTrashed |-> Get(note.isTrashed, FALSE),
         isArchived |-> Get(note.isArchived, FALSE)]

EmptyNote == [textContent |-> None, createdTimestampUsec |-> None,
              userEditedTimestampUsec |-> None, attachments |-> None,
              isTrashed |-> None, isArchived |-> None]

-----------------------------------------------------------------------------
(* gkeep.py: create_summary *)

MaxEvents == 2

SkipMessage == <<"Empty or trashed note - no summary generated">>

\* str.lower(), on the letters that occur
LowerChar(c) ==
    CASE c = "J" -> "j" [] c = "P" -> "p" [] c = "G" -> "g" [] OTHER -> c
Lower(str) == [i \in 1..Len(str) |-> LowerChar(str[i])]

\* Path.suffix: the name from its last "." on, "" when there is none
PathSuffix(path) ==
    LET dots == {i \in 2..Len(path.name) : path.name[i] = "."}
    IN  IF dots = {} THEN <<>>
        ELSE SubSeq(path.name, CHOOSE i \in dots : \A j \in dots : j <= i,
                    Len(path.name))

\* line 110 with strip() forgotten
SkipNote_NoStrip(note) == note.textContent = <<>> \/ note.isTrashed

\* line 110: not processed_note["textContent"].strip() or processed_note["isTrashed"]
SkipNote(note) == Strip(note.textContent) = <<>> \/ note.isTrashed

DatetimeText(dt) == <<ToString(dt.second), ".", ToString(dt.microsecond)>>

\* lines 121-141: the prompt, one entry per element of prompt_parts
full_prompt(note) ==
    LET created_date == note.createdTimestampUsec
        edited_date  == note.userEditedTimestampUsec
        attachments  == note.attachments
    IN  <<"Please summarize this Google Keep note", "Text content: ">>
        \o note.textContent
        \o (IF created_date.has
            THEN <<"Created: ">> \o DatetimeText(created_date.v) ELSE <<>>)
        \o (IF edited_date.has /\ edited_date # created_date
            THEN <<"Last edited: ">> \o DatetimeText(edited_date.v) ELSE <<>>)
        \o (IF attachments # <<>>
            THEN <<"Attachments: ", ToString(Len(attachments))>> ELSE <<>>)
        \o (IF note.isArchived THEN <<"Note is archived">> ELSE <<>>)

\* lines 171-177: the extensions get_summary takes for images
ImageSuffixes == {<<".", "p", "n", "g">>, <<".", "j", "p", "g">>,
                  <<".", "j", "p", "e", "g">>, <<".", "g", "i", "f">>,
                  <<".", "w", "e", "b", "p">>}

\* the table with .jpg mistyped
mime_type_map_Jpg(suffix) ==
    CASE suffix = <<".", "p", "n", "g">>      -> "image/png"
      [] suffix = <<".", "j", "p", "g">>      -> "image/jpg"
      [] suffix = <<".", "j", "p", "e", "g">> -> "image/jpeg"
      [] suffix = <<".", "g", "i", "f">>      -> "image/gif"
      [] suffix = <<".", "w", "e", "b", "p">> -> "image/webp"
      [] OTHER -> "image/png"

\* lines 184-193: mime_type_map.get(suffix, "image/png")
mime_type_map(suffix) ==
    CASE suffix = <<".", "p", "n", "g">>      -> "image/png"
      [] suffix = <<".", "j", "p", "g">>      -> "image/jpeg"
      [] suffix = <<".", "j", "p", "e", "g">> -> "image/jpeg"
      [] suffix = <<".", "g", "i", "f">>      -> "image/gif"
      [] suffix = <<".", "w", "e", "b", "p">> -> "image/webp"
      [] OTHER -> "image/png"

\* line 171: attachment_path.exists() and attachment_path.suffix.lower() in [...]
IsImage(path, exists) == exists /\ Lower(PathSuffix(path)) \in ImageSuffixes

\* the handler letting the exception through
summary_except_Propagates(e) == Raise(e)

\* lines 224-225: except Exception as e
summary_except(e) == Return(<<"Error generating summary: ">> \o e.msg)

\* An event of the stream: no content, or parts each with or without text
Events == {[content |-> None],
           [content |-> Some(<<>>)],
           [content |-> Some(<<Some(<<"x">>)>>)],
           [content |-> Some(<<None, Some(<<" ">>)>>)],
           [content |-> Some(<<Some(<<>>), Some(<<"x">>)>>)]}

\* lines 214-217: the text of an event's parts, empty and missing texts skipped
RECURSIVE PartsText(_)
PartsText(parts) ==
    IF parts = <<>> THEN <<>>
    ELSE (IF Head(parts).has THEN Head(parts).v ELSE <<>>) \o PartsText(Tail(parts))
EventText(event) == IF event.content.has THEN PartsText(event.content.v) ELSE <<>>

loopVars == <<fileNo, json_file, skipped, opened, processed, summarized, content>>

\* raise e inside the try block
SummaryThrow(e) ==
    /\ thrown' = Some(e)
    /\ summary' = summary_except(e)
    /\ g_pc' = "cs_done"

\* lines 110-141: the skip test, then the prompt
SummaryCheck ==
    /\ g_pc = "cs_start"
    /\ IF SkipNote(processed_note)
       THEN summary' = Return(SkipMessage) /\ g_pc' = "cs_done"
       ELSE summary' = summary /\ g_pc' = "cs_agent"
    /\ UNCHANGED <<loopVars, processed_note, agents, runners, sessions, runs, disk,
                   warnings, thrown, streamed, content_parts, result_text>>
    /\ UNCHANGED notKeepVars

\* lines 145-156: LlmAgent(...)
SummaryBuildAgent ==
    /\ g_pc = "cs_agent"
    /\ agents' = agents + 1
    /\ \E ok \in BOOLEAN :
          IF ok THEN g_pc' = "cs_runner" /\ UNCHANGED <<thrown, summary>>
          ELSE SummaryThrow(Exc("Exception", <<"no agent">>))
    /\ UNCHANGED <<loopVars, processed_note, runners, sessions, runs, disk,
                   warnings, streamed, content_parts, result_text>>
    /\ UNCHANGED notKeepVars

\* lines 222, 160: asyncio.run(get_summary()) and InMemoryRunner(...)
SummaryBuildRunner ==
    /\ g_pc = "cs_runner"
    /\ runners' = runners + 1
    /\ \E ok \in BOOLEAN :
          IF ok THEN g_pc' = "cs_session" /\ UNCHANGED <<thrown, summary>>
          ELSE SummaryThrow(Exc("Exception", <<"no runner">>))
    /\ UNCHANGED <<loopVars, processed_note, agents, sessions, runs, disk,
                   warnings, streamed, content_parts, result_text>>
    /\ UNCHANGED notKeepVars

\* lines 161-166: create_session(...), then the text part
SummaryCreateSession ==
    /\ g_pc = "cs_session"
    /\ sessions' = sessions + 1
    /\ \E ok \in BOOLEAN :
          IF ok
          THEN /\ g_pc' = "cs_attach"
               /\ content_parts' = <<[text |-> full_prompt(processed_note)]>>
               /\ UNCHANGED <<thrown, summary>>
          ELSE /\ SummaryThrow(Exc("Exception", <<"no session">>))
               /\ UNCHANGED content_parts
    /\ UNCHANGED <<loopVars, processed_note, agents, runners, runs, disk,
                   warnings, streamed, result_text>>
    /\ UNCHANGED notKeepVars

\* lines 170-206: one turn of the loop over the attachments
SummaryAttach ==
    /\ g_pc = "cs_attach"
    /\ Len(disk) < Len(processed_note.attachments)
    /\ LET n == Len(disk) + 1
           attachment_path == processed_note.attachments[n]
       IN  \E exists \in BOOLEAN, readable \in BOOLEAN :
              /\ readable => exists
              /\ disk' = Append(disk, [exists |-> exists, readable |-> readable])
              /\ IF IsImage(attachment_path, exists)
                 THEN IF readable
                      THEN /\ content_parts' =
                                Append(content_parts,
                                       [mime_type |->
                                            mime_type_map(Lower(PathSuffix(attachment_path))),
                                        data |-> n])
                           /\ UNCHANGED warnings
                      ELSE /\ warnings' = warnings \cup {n}
                           /\ UNCHANGED content_parts
                 ELSE UNCHANGED <<content_parts, warnings>>
    /\ UNCHANGED <<g_pc, loopVars, processed_note, agents, runners, sessions, runs,
                   thrown, streamed, result_text, summary>>
    /\ UNCHANGED notKeepVars

\* lines 208-213: the message is complete; runner.run_async(...)
SummaryRun ==
    /\ g_pc = "cs_attach"
    /\ Len(disk) = Len(processed_note.attachments)
    /\ runs' = runs + 1
    /\ g_pc' = "cs_stream"
    /\ UNCHANGED <<loopVars, processed_note, agents, runners, sessions, disk,
                   warnings, thrown, streamed, content_parts, result_text, summary>>
    /\ UNCHANGED notKeepVars

\* lines 211-217: the stream yields an event
SummaryEvent ==
    /\ g_pc = "cs_stream"
    /\ streamed < MaxEvents
    /\ streamed' = streamed + 1
    /\ \E event \in Events : result_text' = result_text \o EventText(event)
    /\ UNCHANGED <<g_pc, loopVars, processed_note, agents, runners, sessions, runs,
                   disk, warnings, thrown, content_parts, summary>>
    /\ UNCHANGED notKeepVars

\* line 211: the stream raises
SummaryStreamRaise ==
    /\ g_pc = "cs_stream"
    /\ SummaryThrow(Exc("Exception", <<"stream broke">>))
    /\ UNCHANGED <<loopVars, processed_note, agents, runners, sessions, runs, disk,
                   warnings, streamed, content_parts, result_text>>
    /\ UNCHANGED notKeepVars

\* lines 219-222: the stream ends
SummaryStreamEnd ==
    /\ g_pc = "cs_stream"
    /\ summary' = Return(IF result_text # <<>> THEN Strip(result_text)
                         ELSE <<"No summary generated">>)
    /\ g_pc' = "cs_done"
    /\ UNCHANGED <<loopVars, processed_note, agents, runners, sessions, runs, disk,
                   warnings, thrown, streamed, content_parts, result_text>>
    /\ UNCHANGED notKeepVars

SummaryNext ==
    \/ SummaryCheck \/ SummaryBuildAgent \/ SummaryBuildRunner
    \/ SummaryCreateSession \/ SummaryAttach \/ SummaryRun
    \/ SummaryEvent \/ SummaryStreamRaise \/ SummaryStreamEnd

-----------------------------------------------------------------------------
(* gkeep.py: the __main__ loop *)

MaxFiles == 2

\* The notes the loop is run on
LoopNotes ==
    {EmptyNote,
     [EmptyNote EXCEPT !.textContent = Some(<<"x">>), !.isTrashed = Some(TRUE)],
     [EmptyNote EXCEPT !.textContent = Some(<<"x">>),
                       !.createdTimestampUsec = Some(1500000)],
     [EmptyNote EXCEPT !.textContent = Some(<<" ", "x", " ">>),
                       !.attachments = Some(<<[filePath |-> <<"f", ".", "p", "n", "g">>]>>)]}

\* The notes create_summary is run on: every text, flag and attachment list,
\* the two timestamps both absent or both the same instant
SummaryNotes ==
    {n \in Notes : /\ n.createdTimestampUsec \in {None, Some(1500000)}
                   /\ n.userEditedTimestampUsec = n.createdTimestampUsec}

\* What the glob can yield: a regular file or not (a directory, a dangling
\* link, a pipe), which open() accepts or not, holding JSON or not
Paths == [isFile : BOOLEAN, opens : BOOLEAN, loads : Opt(LoopNotes)]

summaryVars == <<agents, runners, sessions, runs, disk, warnings, thrown, streamed,
                 content_parts, result_text, summary>>

\* line 230: the glob yields the next path
LoopNextFile ==
    /\ g_pc = "loop"
    /\ fileNo < MaxFiles
    /\ fileNo' = fileNo + 1
    /\ \E path \in Paths : json_file' = Some(path)
    /\ g_pc' = "check"
    /\ UNCHANGED <<skipped, opened, processed, summarized, content, processed_note,
                   summaryVars>>
    /\ UNCHANGED notKeepVars

\* lines 230, 246: the glob is exhausted
LoopEnd ==
    /\ g_pc = "loop"
    /\ g_pc' = "finished"
    /\ UNCHANGED <<loopVars, processed_note, summaryVars>>
    /\ UNCHANGED notKeepVars

\* lines 231-232: the message is printed; no continue follows it, so the
\* body goes on with the same path
LoopCheckFile ==
    /\ g_pc = "check"
    /\ skipped' = IF ~json_file.v.isFile THEN skipped \cup {fileNo} ELSE skipped
    /\ g_pc' = "open"
    /\ UNCHANGED <<fileNo, json_file, opened, processed, summarized, content,
                   processed_note, summaryVars>>
    /\ UNCHANGED notKeepVars

\* line 234: json.load(open(json_file, ...)); either call may raise, and
\* nothing catches it
LoopOpen ==
    /\ g_pc = "open"
    /\ opened' = opened \cup {fileNo}
    /\ IF json_file.v.opens /\ json_file.v.loads.has
       THEN content' = json_file.v.loads.v /\ g_pc' = "process"
       ELSE content' = content /\ g_pc' = "crashed"
    /\ UNCHANGED <<fileNo, json_file, skipped, processed, summarized,
                   processed_note, summaryVars>>
    /\ UNCHANGED notKeepVars

\* line 235: processed_note = process_note(content)
LoopProcess ==
    /\ g_pc = "process"
    /\ processed' = processed \cup {fileNo}
    /\ processed_note' = process_note(content)
    /\ g_pc' = "summarize"
    /\ UNCHANGED <<fileNo, json_file, skipped, opened, summarized, content,
                   summaryVars>>
    /\ UNCHANGED notKeepVars

\* lines 239-242: create_summary(processed_note) is called
LoopSummarize ==
    /\ g_pc = "summarize"
    /\ summarized' = summarized \cup {fileNo}
    /\ agents' = 0 /\ runners' = 0 /\ sessions' = 0 /\ runs' = 0
    /\ disk' = <<>> /\ warnings' = {} /\ thrown' = None /\ streamed' = 0
    /\ content_parts' = <<>> /\ result_text' = <<>> /\ summary' = NoOutcome
    /\ g_pc' = "cs_start"
    /\ UNCHANGED <<fileNo, json_file, skipped, opened, processed, content,
                   processed_note>>
    /\ UNCHANGED notKeepVars

\* lines 243-245: the summary is printed; on to the next path
LoopPrint ==
    /\ g_pc = "cs_done"
    /\ g_pc' = "loop"
    /\ UNCHANGED <<loopVars, processed_note, summaryVars>>
    /\ UNCHANGED notKeepVars

LoopNext ==
    \/ LoopNextFile \/ LoopEnd \/ LoopCheckFile \/ LoopOpen \/ LoopProcess
    \/ LoopSummarize \/ LoopPrint \/ SummaryNext

-----------------------------------------------------------------------------
(* gtd_workflow.py: main() *)

\* lines 185-190
test_queries == <<"Research vacation destinations for summer trip",
                  "Review quarterly budget numbers">>

\* What an event of the coordinator's stream prints: nothing, or one line
\* per part that has text
GtdEvents == {<<>>, <<"capture_agent: ok">>, <<"gtd_coordinator: a", "gtd_coordinator: b">>}

\* lines 173-182: the banner, the runner and the session; a failure here is
\* caught by nothing
MainCreateSession ==
    /\ m_pc = "start"
    /\ \E ok \in BOOLEAN :
          IF ok THEN session' = 1 /\ m_pc' = "for"
          ELSE session' = session /\ m_pc' = "crashed"
    /\ printed' = Append(printed, "Starting GTD Multi-Agent Workflow System")
    /\ UNCHANGED <<queryNo, submitted, eventsSeen>>
    /\ UNCHANGED notGtdVars

\* lines 192-194: the next query of the list
MainNextQuery ==
    /\ m_pc = "for"
    /\ queryNo < Len(test_queries)
    /\ queryNo' = queryNo + 1
    /\ printed' = Append(printed, "Processing: " \o test_queries[queryNo + 1])
    /\ m_pc' = "submit"
    /\ UNCHANGED <<session, submitted, eventsSeen>>
    /\ UNCHANGED notGtdVars

\* lines 198-203: runner.run_async(...) on the session
MainSubmit ==
    /\ m_pc = "submit"
    /\ submitted' = Append(submitted, [query |-> test_queries[queryNo],
                                       session_id |-> session])
    /\ eventsSeen' = 0
    /\ m_pc' = "stream"
    /\ UNCHANGED <<session, queryNo, printed>>
    /\ UNCHANGED notGtdVars

\* lines 201-207: an event arrives and its texts are printed
MainEvent ==
    /\ m_pc = "stream"
    /\ eventsSeen < MaxEvents
    /\ eventsSeen' = eventsSeen + 1
    /\ \E event \in GtdEvents : printed' = printed \o event
    /\ UNCHANGED <<m_pc, session, queryNo, submitted>>
    /\ UNCHANGED notGtdVars

\* the handler ending the loop
MainStreamRaise_Break ==
    /\ m_pc = "stream"
    /\ printed' = Append(printed, "Error processing " \o test_queries[queryNo])
    /\ queryNo' = Len(test_queries)
    /\ m_pc' = "for"
    /\ UNCHANGED <<session, submitted, eventsSeen>>
    /\ UNCHANGED notGtdVars

\* lines 209-210: the stream raises; the error is printed and the loop goes on
MainStreamRaise ==
    /\ m_pc = "stream"
    /\ printed' = Append(printed, "Error processing " \o test_queries[queryNo])
    /\ m_pc' = "for"
    /\ UNCHANGED <<session, queryNo, submitted, eventsSeen>>
    /\ UNCHANGED notGtdVars

\* line 201: the stream ends
MainStreamEnd ==
    /\ m_pc = "stream"
    /\ m_pc' = "for"
    /\ UNCHANGED <<session, queryNo, submitted, printed, eventsSeen>>
    /\ UNCHANGED notGtdVars

\* line 212: after the last query
MainComplete ==
    /\ m_pc = "for"
    /\ queryNo = Len(test_queries)
    /\ printed' = Append(printed, "GTD Workflow Demo Complete!")
    /\ m_pc' = "done"
    /\ UNCHANGED <<session, queryNo, submitted, eventsSeen>>
    /\ UNCHANGED notGtdVars

MainNext ==
    \/ MainCreateSession \/ MainNextQuery \/ MainSubmit \/ MainEvent
    \/ MainStreamRaise \/ MainStreamEnd \/ MainComplete

-----------------------------------------------------------------------------
(* gtd_workflow.py: the tool functions *)

MaxClock == 2
MaxCalls == 2

Tasks    == {<<"t">>, <<"u">>}
Contexts == {<<>>, <<"c">>}

\* line 19: datetime.now().isoformat()
Timestamp == <<ToString(now)>>

\* lines 17-20
capture_task(task_description, context) ==
    <<"Task captured: '">> \o task_description \o <<"' (Context: ">> \o context
    \o <<") at ">> \o Timestamp

\* clarify_task stamping its result as capture_task does
clarify_task_Stamped(task) ==
    <<"Task clarified: '">> \o task \o <<"' is actionable. Next action: Process ">>
    \o task \o <<". Context: @computer at ">> \o Timestamp

\* lines 23-25
clarify_task(task) ==
    <<"Task clarified: '">> \o task \o <<"' is actionable. Next action: Process ">>
    \o task \o <<". Context: @computer">>

\* lines 28-30
organize_task(task) == <<"Task organized into @computer context: ">> \o task

\* lines 33-35
review_tasks ==
    <<"Weekly review completed: All lists reviewed, projects updated, next actions identified">>

\* lines 38-40
engage_with_task(task) ==
    <<"Working on task: ">> \o task \o <<" - Task completed successfully">>

\* the log after one more call
Logged(fn, args, result) ==
    Append(calls, [fn |-> fn, args |-> args, at |-> now, result |-> result])

\* time passes between calls
Tick ==
    /\ now < MaxClock
    /\ now' = now + 1
    /\ UNCHANGED <<calls, notToolVars>>

CallCapture ==
    /\ Len(calls) < MaxCalls
    /\ \E t \in Tasks, c \in Contexts :
          calls' = Logged("capture_task", <<t, c>>, capture_task(t, c))
    /\ UNCHANGED <<now, notToolVars>>

CallClarify ==
    /\ Len(calls) < MaxCalls
    /\ \E t \in Tasks : calls' = Logged("clarify_task", <<t>>, clarify_task(t))
    /\ UNCHANGED <<now, notToolVars>>

CallOrganize ==
    /\ Len(calls) < MaxCalls
    /\ \E t \in Tasks : calls' = Logged("organize_task", <<t>>, organize_task(t))
    /\ UNCHANGED <<now, notToolVars>>

CallReview ==
    /\ Len(calls) < MaxCalls
    /\ calls' = Logged("review_tasks", <<>>, review_tasks)
    /\ UNCHANGED <<now, notToolVars>>

CallEngage ==
    /\ Len(calls) < MaxCalls
    /\ \E t \in Tasks : calls' = Logged("engage_with_task", <<t>>, engage_with_task(t))
    /\ UNCHANGED <<now, notToolVars>>

ToolsNext ==
    \/ Tick \/ CallCapture \/ CallClarify \/ CallOrganize \/ CallReview \/ CallEngage

-----------------------------------------------------------------------------
(* The specifications: one per entry point.  The variables of the scripts  *)
(* that are not running keep their idle values.                            *)

\* one call of fetch_webpage_summary, on any URL
InitFetch ==
    /\ f_pc = "start"
    /\ url \in Urls
    /\ model = "unbuilt"
    /\ generateCalls = 0
    /\ f_out = NoOutcome
    /\ pk_pc = "idle"
    /\ data = Scalar
    /\ stdout_keys = <<>>
    /\ g_pc = "idle"
    /\ fileNo = 0
    /\ json_file = None
    /\ skipped = {}
    /\ opened = {}
    /\ processed = {}
    /\ summarized = {}
    /\ content = EmptyNote
    /\ processed_note = process_note(EmptyNote)
    /\ agents = 0
    /\ runners = 0
    /\ sessions = 0
    /\ runs = 0
    /\ disk = <<>>
    /\ warnings = {}
    /\ thrown = None
    /\ streamed = 0
    /\ content_parts = <<>>
    /\ result_text = <<>>
    /\ summary = NoOutcome
    /\ m_pc = "idle"
    /\ session = 0
    /\ queryNo = 0
    /\ submitted = <<>>
    /\ printed = <<>>
    /\ eventsSeen = 0
    /\ now = 0
    /\ calls = <<>>

SpecFetch == InitFetch /\ [][FetchNext]_vars

\* one call of print_keys, on any mapping or sequence
InitKeys ==
    /\ f_pc = "idle"
    /\ url = <<>>
    /\ model = "unbuilt"
    /\ generateCalls = 0
    /\ f_out = NoOutcome
    /\ pk_pc = "start"
    /\ data \in Containers
    /\ stdout_keys = <<>>
    /\ g_pc = "idle"
    /\ fileNo = 0
    /\ json_file = None
    /\ skipped = {}
    /\ opened = {}
    /\ processed = {}
    /\ summarized = {}
    /\ content = EmptyNote
    /\ processed_note = process_note(EmptyNote)
    /\ agents = 0
    /\ runners = 0
    /\ sessions = 0
    /\ runs = 0
    /\ disk = <<>>
    /\ warnings = {}
    /\ thrown = None
    /\ streamed = 0
    /\ content_parts = <<>>
    /\ result_text = <<>>
    /\ summary = NoOutcome
    /\ m_pc = "idle"
    /\ session = 0
    /\ queryNo = 0
    /\ submitted = <<>>
    /\ printed = <<>>
    /\ eventsSeen = 0
    /\ now = 0
    /\ calls = <<>>

SpecKeys == InitKeys /\ [][KeysNext]_vars

\* one call of process_note, on any note
InitNote ==
    /\ f_pc = "idle"
    /\ url = <<>>
    /\ model = "unbuilt"
    /\ generateCalls = 0
    /\ f_out = NoOutcome
    /\ pk_pc = "idle"
    /\ data = Scalar
    /\ stdout_keys = <<>>
    /\ g_pc = "process"
    /\ fileNo = 1
    /\ json_file = None
    /\ skipped = {}
    /\ opened = {}
    /\ processed = {}
    /\ summarized = {}
    /\ content \in Notes
    /\ processed_note = process_note(EmptyNote)
    /\ agents = 0
    /\ runners = 0
    /\ sessions = 0
    /\ runs = 0
    /\ disk = <<>>
    /\ warnings = {}
    /\ thrown = None
    /\ streamed = 0
    /\ content_parts = <<>>
    /\ result_text = <<>>
    /\ summary = NoOutcome
    /\ m_pc = "idle"
    /\ session = 0
    /\ queryNo = 0
    /\ submitted = <<>>
    /\ printed = <<>>
    /\ eventsSeen = 0
    /\ now = 0
    /\ calls = <<>>

SpecNote == InitNote /\ [][LoopProcess]_vars

\* one call of create_summary, on any processed note
InitSummary ==
    /\ f_pc = "idle"
    /\ url = <<>>
    /\ model = "unbuilt"
    /\ generateCalls = 0
    /\ f_out = NoOutcome
    /\ pk_pc = "idle"
    /\ data = Scalar
    /\ stdout_keys = <<>>
    /\ g_pc = "cs_start"
    /\ fileNo = 1
    /\ json_file = None
    /\ skipped = {}
    /\ opened = {}
    /\ processed = {}
    /\ summarized = {}
    /\ content \in SummaryNotes
    /\ processed_note = process_note(content)
    /\ agents = 0
    /\ runners = 0
    /\ sessions = 0
    /\ runs = 0
    /\ disk = <<>>
    /\ warnings = {}
    /\ thrown = None
    /\ streamed = 0
    /\ content_parts = <<>>
    /\ result_text = <<>>
    /\ summary = NoOutcome
    /\ m_pc = "idle"
    /\ session = 0
    /\ queryNo = 0
    /\ submitted = <<>>
    /\ printed = <<>>
    /\ eventsSeen = 0
    /\ now = 0
    /\ calls = <<>>

SpecSummary == InitSummary /\ [][SummaryNext]_vars

\* the __main__ loop of gkeep.py, from its first iteration
InitLoop ==
    /\ f_pc = "idle"
    /\ url = <<>>
    /\ model = "unbuilt"
    /\ generateCalls = 0
    /\ f_out = NoOutcome
    /\ pk_pc = "idle"
    /\ data = Scalar
    /\ stdout_keys = <<>>
    /\ g_pc = "loop"
    /\ fileNo = 0
    /\ json_file = None
    /\ skipped = {}
    /\ opened = {}
    /\ processed = {}
    /\ summarized = {}
    /\ content = EmptyNote
    /\ processed_note = process_note(EmptyNote)
    /\ agents = 0
    /\ runners = 0
    /\ sessions = 0
    /\ runs = 0
    /\ disk = <<>>
    /\ warnings = {}
    /\ thrown = None
    /\ streamed = 0
    /\ content_parts = <<>>
    /\ result_text = <<>>
    /\ summary = NoOutcome
    /\ m_pc = "idle"
    /\ session = 0
    /\ queryNo = 0
    /\ submitted = <<>>
    /\ printed = <<>>
    /\ eventsSeen = 0
    /\ now = 0
    /\ calls = <<>>

SpecLoop == InitLoop /\ [][LoopNext]_vars

\* main() of gtd_workflow.py
InitMain ==
    /\ f_pc = "idle"
    /\ url = <<>>
    /\ model = "unbuilt"
    /\ generateCalls = 0
    /\ f_out = NoOutcome
    /\ pk_pc = "idle"
    /\ data = Scalar
    /\ stdout_keys = <<>>
    /\ g_pc = "idle"
    /\ fileNo = 0
    /\ json_file = None
    /\ skipped = {}
    /\ opened = {}
    /\ processed = {}
    /\ summarized = {}
    /\ content = EmptyNote
    /\ processed_note = process_note(EmptyNote)
    /\ agents = 0
    /\ runners = 0
    /\ sessions = 0
    /\ runs = 0
    /\ disk = <<>>
    /\ warnings = {}
    /\ thrown = None
    /\ streamed = 0
    /\ content_parts = <<>>
    /\ result_text = <<>>
    /\ summary = NoOutcome
    /\ m_pc = "start"
    /\ session = 0
    /\ queryNo = 0
    /\ submitted = <<>>
    /\ printed = <<>>
    /\ eventsSeen = 0
    /\ now = 0
    /\ calls = <<>>

\* asyncio.run(main()) runs main() to its end: a step that can be taken is taken
SpecMain == InitMain /\ [][MainNext]_vars /\ WF_vars(MainNext)

\* the tool functions, called in any order at any time
InitTools ==
    /\ f_pc = "idle"
    /\ url = <<>>
    /\ model = "unbuilt"
    /\ generateCalls = 0
    /\ f_out = NoOutcome
    /\ pk_pc = "idle"
    /\ data = Scalar
    /\ stdout_keys = <<>>
    /\ g_pc = "idle"
    /\ fileNo = 0
    /\ json_file = None
    /\ skipped = {}
    /\ opened = {}
    /\ processed = {}
    /\ summarized = {}
    /\ content = EmptyNote
    /\ processed_note = process_note(EmptyNote)
    /\ agents = 0
    /\ runners = 0
    /\ sessions = 0
    /\ runs = 0
    /\ disk = <<>>
    /\ warnings = {}
    /\ thrown = None
    /\ streamed = 0
    /\ content_parts = <<>>
    /\ result_text = <<>>
    /\ summary = NoOutcome
    /\ m_pc = "idle"
    /\ session = 0
    /\ queryNo = 0
    /\ submitted = <<>>
    /\ printed = <<>>
    /\ eventsSeen = 0
    /\ now = 0
    /\ calls = <<>>

SpecTools == InitTools /\ [][ToolsNext]_vars

-----------------------------------------------------------------------------
(* Properties of fetch_webpage_summary, under SpecFetch *)

\* C1: fetch_webpage_summary never raises.  Whatever the URL and whatever the
\* model call does (text, an empty or absent response, an exception), the call
\* ends by returning a dict that is either a success carrying exactly status,
\* summary and url, the url being the argument, or an error carrying
\* error_message and no summary.
C1_NeverRaises ==
    f_pc = "done" =>
        /\ f_out.kind = "return"
        /\ \/ /\ f_out.value.status = "success"
              /\ DOMAIN f_out.value = {"status", "summary", "url"}
              /\ f_out.value.url = url
           \/ /\ f_out.value.status = "error"
              /\ DOMAIN f_out.value = {"status", "error_message"}

\* the model call raised and the call still returned an error dict
C1_Witness ==
    /\ f_pc = "done"
    /\ generateCalls = 1
    /\ f_out = Return([status |-> "error",
                       error_message |->
                           <<"An error occurred while processing the webpage: ", "boom">>])

\* C10: the URL is validated before any use of the model.  When the parsed URL
\* has an empty scheme or an empty network location the call returns the
\* invalid-URL error and the model is neither built nor invoked; the model is
\* invoked at most once, and only for a URL that has both.
C10_ValidatedBeforeModel ==
    LET p       == urlparse(url)
        hasBoth == p.kind = "return" /\ p.value.scheme # <<>> /\ p.value.netloc # <<>>
        lacks   == p.kind = "return" /\ (p.value.scheme = <<>> \/ p.value.netloc = <<>>)
    IN  /\ generateCalls <= 1
        /\ (model = "built" \/ generateCalls > 0) => hasBoth
        /\ lacks => model = "unbuilt" /\ generateCalls = 0
        /\ (f_pc = "done" /\ lacks) =>
               f_out = Return([status |-> "error", error_message |-> InvalidUrlMessage])

\* a URL with a scheme and no network location was turned away
C10_Witness ==
    /\ f_pc = "done"
    /\ url = <<"s", ":", "s">>
    /\ f_out = Return([status |-> "error", error_message |-> InvalidUrlMessage])
    /\ model = "unbuilt"

-----------------------------------------------------------------------------
(* Properties of print_keys, under SpecKeys *)

\* A node below the root is named by the positions that lead to it
RECURSIVE NodesBelow(_)
NodesBelow(d) ==
    IF d.type = "scalar" THEN {}
    ELSE UNION {{<<i>>} \cup {<<i>> \o q :
                                q \in NodesBelow(IF d.type = "dict" THEN d.items[i][2]
                                                 ELSE d.items[i])} :
                i \in 1..Len(d.items)}

\* p is printed before q in a depth-first walk: p is an ancestor of q, or p
\* goes to an earlier sibling where the two part
Before(p, q) ==
    \/ Len(p) < Len(q) /\ SubSeq(q, 1, Len(p)) = p
    \/ \E k \in 1..Len(p) :
          /\ k <= Len(q)
          /\ SubSeq(p, 1, k - 1) = SubSeq(q, 1, k - 1)
          /\ p[k] < q[k]

\* The dotted/bracketed path of the node at positions p of d: the keys joined
\* by dots, each list index in brackets
RECURSIVE DottedPath(_, _, _)
DottedPath(d, p, first) ==
    IF p = <<>> THEN <<>>
    ELSE IF d.type = "dict"
         THEN ((IF first THEN <<>> ELSE <<".">>) \o d.items[Head(p)][1])
              \o DottedPath(d.items[Head(p)][2], Tail(p), FALSE)
         ELSE <<"[", ToString(Head(p) - 1), "]">>
              \o DottedPath(d.items[Head(p)], Tail(p), FALSE)

\* the k-th node of d in depth-first order
NodeAt(d, k) ==
    CHOOSE p \in NodesBelow(d) :
        Cardinality({q \in NodesBelow(d) : Before(q, p)}) = k - 1

\* C3: print_keys prints exactly one line per leaf and per container of the
\* structure, none left out and none twice, each line the dotted/bracketed path
\* of its node, in depth-first order: a container before its children, siblings
\* in the container's order.
C3_OneLinePerNode ==
    pk_pc = "done" =>
        stdout_keys = [k \in 1..Cardinality(NodesBelow(data)) |->
                           DottedPath(data, NodeAt(data, k), TRUE)]

\* the same, for structures whose top-level keys are not empty
PrintKeys_NamedTopKeys ==
    (/\ pk_pc = "done"
     /\ data.type = "dict" => \A i \in 1..Len(data.items) : data.items[i][1] # <<>>)
    => stdout_keys = [k \in 1..Cardinality(NodesBelow(data)) |->
                          DottedPath(data, NodeAt(data, k), TRUE)]

-----------------------------------------------------------------------------
(* Properties of process_note, under SpecNote *)

\* C6: timestamps are optional in process_note.  Each of createdTimestampUsec
\* and userEditedTimestampUsec of the record is None exactly when the field is
\* absent from the note, and is the converted time whenever the field is
\* present, for every integer value, 0 included; a missing timestamp never
\* makes process_note fail.
C6_TimestampsOptional ==
    g_pc = "summarize" =>
        /\ processed_note.createdTimestampUsec =
               (IF content.createdTimestampUsec.has
                THEN Some(Datetime(content.createdTimestampUsec.v)) ELSE None)
        /\ processed_note.userEditedTimestampUsec =
               (IF content.userEditedTimestampUsec.has
                THEN Some(Datetime(content.userEditedTimestampUsec.v)) ELSE None)

\* the same, for the timestamps that are absent or not 0
ProcessNote_NonZeroTimestamps ==
    g_pc = "summarize" =>
        \A f \in {"createdTimestampUsec", "userEditedTimestampUsec"} :
            /\ ~content[f].has => processed_note[f] = None
            /\ (content[f].has /\ content[f].v # 0) =>
                   processed_note[f] = Some(Datetime(content[f].v))

-----------------------------------------------------------------------------
(* Properties of the __main__ loop of gkeep.py, under SpecLoop *)

\* C9: a path that is not a regular file is skipped.  Once "Skipping <path>,
\* not a file." is printed, the path is never opened, parsed, passed to
\* process_note or summarized, and the loop goes on to the next path.
C9_NonFilesSkipped ==
    /\ \A n \in skipped : n \notin opened /\ n \notin processed /\ n \notin summarized
    /\ (g_pc = "crashed" => fileNo \notin skipped)

\* what the loop does do: every path the glob yields is opened, skipped or not
Loop_EveryPathOpened ==
    \A n \in 1..fileNo : g_pc \notin {"check", "open"} \/ n < fileNo => n \in opened

-----------------------------------------------------------------------------
(* Properties of create_summary, under SpecSummary *)

\* C2: on a note that is neither empty nor trashed, an exception from building
\* the agent, creating the session or streaming the run never leaves
\* create_summary: the call returns "Error generating summary: <message>", and
\* the runner is started at most once per call, a failure being final.
C2_ErrorsReturned ==
    /\ summary.kind # "raise"
    /\ agents <= 1 /\ runners <= 1 /\ sessions <= 1 /\ runs <= 1
    /\ thrown.has =>
           /\ g_pc = "cs_done"
           /\ ~SkipNote(processed_note)
           /\ summary = Return(<<"Error generating summary: ">> \o thrown.v.msg)

\* the stream broke after the runner was started, and the error string came back
C2_Witness ==
    /\ g_pc = "cs_done"
    /\ runs = 1
    /\ streamed > 0
    /\ thrown = Some(Exc("Exception", <<"stream broke">>))
    /\ summary = Return(<<"Error generating summary: ", "stream broke">>)

\* the note is empty, blank or trashed
EmptyOrTrashed ==
    \/ \A i \in 1..Len(processed_note.textContent) : processed_note.textContent[i] = " "
    \/ processed_note.isTrashed

ContentType(suffix) ==
    CASE suffix = <<".", "p", "n", "g">>      -> "image/png"
      [] suffix = <<".", "j", "p", "g">>      -> "image/jpeg"
      [] suffix = <<".", "j", "p", "e", "g">> -> "image/jpeg"
      [] suffix = <<".", "g", "i", "f">>      -> "image/gif"
      [] suffix = <<".", "w", "e", "b", "p">> -> "image/webp"

InSet(suffix) ==
    Lower(suffix) \in {<<".", "p", "n", "g">>, <<".", "j", "p", "g">>,
                       <<".", "j", "p", "e", "g">>, <<".", "g", "i", "f">>,
                       <<".", "w", "e", "b", "p">>}

\* the content types under which attachment n was sent
SentAs(n) ==
    {content_parts[k].mime_type :
        k \in {j \in 2..Len(content_parts) : content_parts[j].data = n}}

\* C4 as stated: an attachment (one that is there to be read) whose extension
\* is in the set goes out with the matching content type, and one whose
\* extension is not in the set goes out with the fallback image/png.
C4_AsStated ==
    g_pc = "cs_stream" =>
        \A n \in 1..Len(disk) :
            disk[n].readable =>
                SentAs(n) = {IF InSet(PathSuffix(processed_note.attachments[n]))
                             THEN ContentType(Lower(PathSuffix(processed_note.attachments[n])))
                             ELSE "image/png"}

\* C4, amended: an attachment that exists, can be read and has an extension of
\* the set (case-insensitively) is sent once, with the matching content type;
\* an attachment whose extension is not in the set is not sent at all, so the
\* fallback image/png is never used for it.
C4_MimeTypes ==
    \A n \in 1..Len(disk) :
        LET suffix == PathSuffix(processed_note.attachments[n])
        IN  /\ Cardinality({k \in 2..Len(content_parts) : content_parts[k].data = n}) <= 1
            /\ IF InSet(suffix) /\ disk[n].readable
               THEN SentAs(n) = {ContentType(Lower(suffix))}
               ELSE SentAs(n) = {}

\* a .JPG file went out as image/jpeg
C4_Witness ==
    /\ g_pc = "cs_stream"
    /\ Len(disk) >= 1
    /\ PathSuffix(processed_note.attachments[1]) = <<".", "J", "P", "G">>
    /\ SentAs(1) = {"image/jpeg"}

-----------------------------------------------------------------------------
(* Properties of the tool functions, under SpecTools *)

\* C5 as stated: each of the five tool functions is pure.  Two calls with the
\* same arguments, made at any two points of a run, return the same string.
C5_AsStated ==
    \A i, j \in 1..Len(calls) :
        (calls[i].fn = calls[j].fn /\ calls[i].args = calls[j].args)
            => calls[i].result = calls[j].result

\* C5, amended: clarify_task, organize_task, review_tasks and engage_with_task
\* are pure: two calls with the same arguments, made at any two points of a
\* run, return the same string.  capture_task is not: its result is fixed by
\* its arguments together with the time of the call.
C5_PureButCapture ==
    \A i, j \in 1..Len(calls) :
        (/\ calls[i].fn = calls[j].fn
         /\ calls[i].args = calls[j].args
         /\ calls[i].fn = "capture_task" => calls[i].at = calls[j].at)
            => calls[i].result = calls[j].result

\* clarify_task was called twice with one argument at two times, and capture_task
\* was not called
C5_Witness ==
    /\ Len(calls) = 2
    /\ calls[1].fn = "clarify_task" /\ calls[2].fn = "clarify_task"
    /\ calls[1].args = calls[2].args
    /\ calls[1].at < calls[2].at
    /\ calls[1].result = calls[2].result

-----------------------------------------------------------------------------
(* Properties of main() of gtd_workflow.py, under SpecMain *)

Completed ==
    /\ m_pc = "done"
    /\ printed # <<>>
    /\ printed[Len(printed)] = "GTD Workflow Demo Complete!"

\* every submission so far is the next query of the list, on the one session
InListOrder ==
    /\ Len(submitted) <= Len(test_queries)
    /\ \A i \in 1..Len(submitted) :
          submitted[i] = [query |-> test_queries[i], session_id |-> 1]
    /\ submitted # <<>> => session = 1
    /\ (\E k \in 1..Len(printed) : printed[k] = "GTD Workflow Demo Complete!")
           => (m_pc = "done" /\ Len(submitted) = Len(test_queries))

\* the session is created once, and a query is submitted only when the stream
\* of the query before it has ended or raised
OneAtATime ==
    /\ session # 0 => session' = session
    /\ submitted' # submitted => (m_pc # "stream" /\ Len(submitted') = Len(submitted) + 1)

\* C7: main() creates one session and then submits every query of test_queries
\* to the runner exactly once, in list order, on that session; a query is
\* submitted only after the stream of the one before it has ended or raised; an
\* exception while one query is processed does not keep any later query from
\* being submitted; and, every stream ending, the completion message is
\* eventually printed after the last query.
C7_Driver ==
    /\ []InListOrder
    /\ [][OneAtATime]_vars
    /\ (session # 0) ~> (Len(submitted) = Len(test_queries))
    /\ (session # 0) ~> Completed

\* the first query failed, the second was submitted all the same, and the
\* completion message was printed
C7_Witness ==
    /\ Completed
    /\ Len(submitted) = Len(test_queries)
    /\ \E k \in 1..Len(printed) : printed[k] = "Error processing " \o test_queries[1]

=============================================================================
